---- MODULE Spec2Model ----
(***************************************************************************)
(* Content API of the marketing site: the blog-post route handlers         *)
(* (app/api/blog/route.ts and app/api/blog/[slug]/route.ts) over the       *)
(* blog_posts table, with the shared-secret authorization gate.            *)
(* With it: the post editor that calls it (EditorContent), two PUT         *)
(* requests in flight together, and the lead API (POST over leads.json).   *)
(*                                                                         *)
(* A JSON object is a function whose domain is the set of keys present in  *)
(* it, so `body.k !== undefined` is `k \in DOMAIN body`.  JSON null for a   *)
(* text field is the marker JSNull; a nullable timestamp is <<>> (null) or *)
(* <<t>>.  Timestamps are clock readings 0..MaxTime.                       *)
(***************************************************************************)
EXTENDS Integers, Sequences, FiniteSets, TLC

VARIABLES
  secret,   \* process.env.ADMIN_PASSWORD
  store,    \* rows of the blog_posts table
  now,      \* the clock read by new Date() and by the store's defaults
  req,      \* the request being answered (NoReq when none)
  resp,     \* the response produced for req
  before,   \* the rows of blog_posts when req arrived
  form,     \* the post editor: its form, isEdit and editSlug
  leadsFile,\* the content of .data/leads.json
  leadReq,  \* the lead submissions in flight, one per connection
  uuids,    \* how many identifiers crypto.randomUUID() has returned
  answered, \* the 201 responses of the lead API sent so far
  puts,     \* two PUT requests to one post, in flight together
  ui,       \* the admin page (AdminPage) and sessionStorage
  lazy,     \* the lazy API handles and the admin client behind them
  nav       \* the navigation progress bar (NavigationProgress)

blogVars == <<secret, store, now, req, resp, before>>
leadVars == <<leadsFile, leadReq, uuids, answered>>
pageVars == <<ui, lazy, nav>>

\* what the handlers of the Content API never touch
others == <<form, leadVars, puts, pageVars>>

vars == <<blogVars, others>>

----------------------------------------------------------------------------
(* Bounds *)

MaxTime == 1

\* the posts created in the runs of the editor
MaxPosts == 2

\* the identifiers crypto.randomUUID() hands out in the runs of the lead API
MaxLeads == 2

\* the property reads made on the lazy API handles
MaxAccesses == 4

----------------------------------------------------------------------------
(* Values *)

JSNull == "<null>"
JSUndefined == "<undefined>"

None == <<>>
Some(t) == <<t>>

Empty == [k \in {} |-> k]

Has(obj, k) == k \in DOMAIN obj

\* JavaScript truthiness of obj.k for a text, boolean and timestamp member
TruthyS(obj, k) == Has(obj, k) /\ obj[k] # "" /\ obj[k] # JSNull
TruthyB(obj, k) == Has(obj, k) /\ obj[k] = TRUE
TruthyT(obj, k) == Has(obj, k) /\ obj[k] # None

\* value || fallback
OrElseS(obj, k, fallback) == IF TruthyS(obj, k) THEN obj[k] ELSE fallback

Times == 0..MaxTime

Slugs == {"s1", "s2"}
Headers == {JSNull, "pw", "bad"}
Secrets == {JSUndefined, "pw"}

DefaultAuthor == "Stalela"

PostFields ==
  {"id", "slug", "title", "excerpt", "content", "cover_image_url", "author",
   "published", "published_at", "created_at", "updated_at"}

\* the columns the list endpoint selects
ListFields == PostFields \ {"content"}

----------------------------------------------------------------------------
(* Request bodies *)

\* every field the editor form carries besides slug and published
FullForm ==
  [title |-> "X", excerpt |-> "E", content |-> "C", cover_image_url |-> "U",
   author |-> "A"]

PostBodies ==
  { c @@ s @@ p :
      c \in {Empty, [title |-> ""], [title |-> "T"], FullForm},
      s \in {Empty, [slug |-> ""]} \cup {[slug |-> x] : x \in Slugs},
      p \in {Empty, [published |-> TRUE], [published |-> FALSE]} }

\* what the editor form and the publish toggle send, and parts of it
PutBodies ==
  { c @@ s @@ p @@ a :
      c \in {Empty, FullForm},
      s \in {Empty, [slug |-> "s2"]},
      p \in {Empty, [published |-> TRUE], [published |-> FALSE]},
      a \in {Empty, [published_at |-> None], [published_at |-> Some(0)]} }

\* request.json(): either throws or yields the object
Unparseable == [parses |-> FALSE, json |-> Empty]
Parsed(b) == [parses |-> TRUE, json |-> b]

NoReq == [op |-> "none"]
NoResp == [status |-> 0]

----------------------------------------------------------------------------
(* Authorization gate *)

\* == in place of ===: null and undefined compare equal
isAuthorized_loose(auth, adminPassword) ==
  \/ auth = adminPassword
  \/ (auth = JSNull /\ adminPassword = JSUndefined)

isAuthorized(auth, adminPassword) == auth = adminPassword

----------------------------------------------------------------------------
(* The store: blog_posts through the supabase client *)

\* unique constraint on slug
SlugTaken(rows, slug, exceptId) ==
  \E p \in rows : p.slug = slug /\ p.id # exceptId

\* a generated identifier: one no row carries
NewId(rows) ==
  CHOOSE i \in 1..(Cardinality(rows) + 1) : \A p \in rows : p.id # i

\* the row an insert persists: generated id and timestamps
NewRow(values, id, t) ==
  [id |-> id, created_at |-> t, updated_at |-> t] @@ values

\* .single(): exactly one row, else an error
Single(rows) ==
  IF Cardinality(rows) = 1
    THEN [error |-> FALSE, data |-> rows]
    ELSE [error |-> TRUE, data |-> {}]

StoreError == [status |-> 500, error |-> "store", data |-> {}, list |-> <<>>]

Json(status, error) == [status |-> status, error |-> error, data |-> {}, list |-> <<>>]
JsonData(status, rows) == [status |-> status, error |-> "", data |-> rows, list |-> <<>>]
JsonList(l) == [status |-> 200, error |-> "", data |-> {}, list |-> l]

----------------------------------------------------------------------------
(* GET /api/blog *)

Project(p) == [f \in ListFields |-> p[f]]

\* the published filter left out
ListQuery_all(rows, admin) == rows

ListQuery(rows, admin) ==
  IF admin THEN rows ELSE {p \in rows : p.published = TRUE}

\* ascending: true
OrderedDesc_asc(l) ==
  \A i \in 1..Len(l) : \A j \in 1..Len(l) :
    i < j => l[i].created_at <= l[j].created_at

\* .order("created_at", { ascending: false })
OrderedDesc(l) ==
  \A i \in 1..Len(l) : \A j \in 1..Len(l) :
    i < j => l[i].created_at >= l[j].created_at

\* every sequence the ordered query may return for a set of rows
Orderings(rows) ==
  { l \in [1..Cardinality(rows) -> rows] :
      /\ \A p \in rows : \E i \in 1..Cardinality(rows) : l[i] = p
      /\ OrderedDesc(l) }

ListResponses(rows, auth, adminPassword, fail) ==
  IF fail THEN {StoreError}
  ELSE { JsonList([i \in DOMAIN l |-> Project(l[i])]) :
           l \in Orderings(ListQuery(rows, isAuthorized(auth, adminPassword))) }

LIST ==
  /\ req = NoReq
  /\ \E auth \in Headers, fail \in BOOLEAN :
       /\ req' = [op |-> "LIST", auth |-> auth, fail |-> fail]
       /\ resp' \in ListResponses(store, auth, secret, fail)
  /\ before' = store
  /\ UNCHANGED <<secret, store, now, others>>

----------------------------------------------------------------------------
(* GET /api/blog/[slug] *)

\* the anonymous query built like the admin one
GetQuery_noFilter(rows, slug, admin) == {p \in rows : p.slug = slug}

GetQuery(rows, slug, admin) ==
  IF admin
    THEN {p \in rows : p.slug = slug}
    ELSE {p \in rows : p.slug = slug /\ p.published = TRUE}

GetResponse(rows, slug, auth, adminPassword, fail) ==
  LET r == Single(GetQuery(rows, slug, isAuthorized(auth, adminPassword)))
  IN IF fail \/ r.error \/ r.data = {}
       THEN Json(404, "Post not found.")
       ELSE JsonData(200, r.data)

GET ==
  /\ req = NoReq
  /\ \E auth \in Headers, slug \in Slugs, fail \in BOOLEAN :
       /\ req' = [op |-> "GET", auth |-> auth, slug |-> slug, fail |-> fail]
       /\ resp' = GetResponse(store, slug, auth, secret, fail)
  /\ before' = store
  /\ UNCHANGED <<secret, store, now, others>>

----------------------------------------------------------------------------
(* POST /api/blog *)

\* presence tested in place of truthiness: an empty title or slug passes
PostValid_present(body) == Has(body, "title") /\ Has(body, "slug")

PostValid(body) == TruthyS(body, "title") /\ TruthyS(body, "slug")

\* content: "" in place of body.content || ""
InsertValues_noContent(body, t) ==
  [slug |-> body.slug, title |-> body.title,
   excerpt |-> OrElseS(body, "excerpt", JSNull), content |-> "",
   cover_image_url |-> OrElseS(body, "cover_image_url", JSNull),
   author |-> OrElseS(body, "author", DefaultAuthor),
   published |-> TruthyB(body, "published"),
   published_at |-> IF TruthyB(body, "published") THEN Some(t) ELSE None]

InsertValues(body, t) ==
  [slug |-> body.slug,
   title |-> body.title,
   excerpt |-> OrElseS(body, "excerpt", JSNull),
   content |-> OrElseS(body, "content", ""),
   cover_image_url |-> OrElseS(body, "cover_image_url", JSNull),
   author |-> OrElseS(body, "author", DefaultAuthor),
   published |-> TruthyB(body, "published"),
   published_at |-> IF TruthyB(body, "published") THEN Some(t) ELSE None]

\* [rows, resp] after the handler ran
PostResult(rows, t, auth, adminPassword, body, fail) ==
  IF ~isAuthorized(auth, adminPassword)
    THEN [rows |-> rows, resp |-> Json(401, "Unauthorized")]
  ELSE IF ~body.parses
    THEN [rows |-> rows, resp |-> Json(400, "Invalid request.")]
  ELSE IF ~PostValid(body.json)
    THEN [rows |-> rows, resp |-> Json(400, "Title and slug are required.")]
  ELSE IF fail \/ SlugTaken(rows, body.json.slug, 0)
    THEN [rows |-> rows, resp |-> StoreError]
  ELSE LET row == NewRow(InsertValues(body.json, t), NewId(rows), t)
       IN [rows |-> rows \cup {row}, resp |-> JsonData(201, {row})]

\* the store is reached only past the authorization and validation checks
PostReachesStore(auth, body) ==
  isAuthorized(auth, secret) /\ body.parses /\ PostValid(body.json)

POST ==
  /\ req = NoReq
  /\ \E auth \in Headers, body \in {Unparseable} \cup {Parsed(b) : b \in PostBodies},
        fail \in BOOLEAN :
       /\ fail => PostReachesStore(auth, body)
       /\ LET r == PostResult(store, now, auth, secret, body, fail)
          IN /\ req' = [op |-> "POST", auth |-> auth, body |-> body, fail |-> fail]
             /\ resp' = r.resp
             /\ store' = r.rows
  /\ before' = store
  /\ UNCHANGED <<secret, now, others>>

----------------------------------------------------------------------------
(* PUT /api/blog/[slug] *)

Copy(body, k) == IF Has(body, k) THEN k :> body[k] ELSE Empty

\* unpublishing clears the timestamp
PublishedAtUpdate_clears(body, t) ==
  IF TruthyB(body, "published")
    THEN "published_at" :> (IF TruthyT(body, "published_at") THEN body.published_at ELSE Some(t))
  ELSE IF Has(body, "published") THEN "published_at" :> None
  ELSE Empty

\* the supplied timestamp ignored
PublishedAtUpdate_alwaysNow(body, t) ==
  IF TruthyB(body, "published") THEN "published_at" :> Some(t) ELSE Empty

\* body.published_at copied like any other member of the body
PublishedAtUpdate_copied(body, t) ==
  IF Has(body, "published_at") THEN "published_at" :> body.published_at
  ELSE IF TruthyB(body, "published") THEN "published_at" :> Some(t)
  ELSE Empty

PublishedAtUpdate(body, t) ==
  IF TruthyB(body, "published")
    THEN "published_at" :> (IF TruthyT(body, "published_at") THEN body.published_at ELSE Some(t))
    ELSE Empty

\* updated_at not refreshed
PutUpdates_noRefresh(body, t) ==
  Copy(body, "title") @@ Copy(body, "slug") @@ Copy(body, "excerpt")
    @@ Copy(body, "content") @@ Copy(body, "cover_image_url") @@ Copy(body, "author")
    @@ Copy(body, "published") @@ PublishedAtUpdate(body, t)

PutUpdates(body, t) ==
  ("updated_at" :> t)
    @@ Copy(body, "title") @@ Copy(body, "slug") @@ Copy(body, "excerpt")
    @@ Copy(body, "content") @@ Copy(body, "cover_image_url") @@ Copy(body, "author")
    @@ Copy(body, "published") @@ PublishedAtUpdate(body, t)

\* the values of the row kept where the update carries others
StoreUpdate_stale(rows, slug, updates, fail) ==
  LET hit == {p \in rows : p.slug = slug}
      clash == Has(updates, "slug") /\ \E p \in hit : SlugTaken(rows, updates.slug, p.id)
      new == {p @@ updates : p \in hit}
      one == Single(new)
  IN IF fail \/ clash THEN [rows |-> rows, error |-> TRUE, data |-> {}]
     ELSE [rows |-> (rows \ hit) \cup new, error |-> one.error, data |-> one.data]

\* .update(updates).eq("slug", slug).select().single()
StoreUpdate(rows, slug, updates, fail) ==
  LET hit == {p \in rows : p.slug = slug}
      clash == Has(updates, "slug")
                 /\ \E p \in hit : SlugTaken(rows, updates.slug, p.id)
      new == {updates @@ p : p \in hit}
      one == Single(new)
  IN IF fail \/ clash THEN [rows |-> rows, error |-> TRUE, data |-> {}]
     ELSE [rows |-> (rows \ hit) \cup new, error |-> one.error, data |-> one.data]

\* the authorization check left out
PutResult_noGate(rows, t, slug, auth, adminPassword, body, fail) ==
  IF ~body.parses
    THEN [rows |-> rows, resp |-> Json(400, "Invalid request.")]
  ELSE LET u == StoreUpdate(rows, slug, PutUpdates(body.json, t), fail)
       IN IF u.error THEN [rows |-> u.rows, resp |-> StoreError]
          ELSE IF u.data = {} THEN [rows |-> u.rows, resp |-> Json(404, "Post not found.")]
          ELSE [rows |-> u.rows, resp |-> JsonData(200, u.data)]

PutResult(rows, t, slug, auth, adminPassword, body, fail) ==
  IF ~isAuthorized(auth, adminPassword)
    THEN [rows |-> rows, resp |-> Json(401, "Unauthorized")]
  ELSE IF ~body.parses
    THEN [rows |-> rows, resp |-> Json(400, "Invalid request.")]
  ELSE LET u == StoreUpdate(rows, slug, PutUpdates(body.json, t), fail)
       IN IF u.error THEN [rows |-> u.rows, resp |-> StoreError]
          ELSE IF u.data = {} THEN [rows |-> u.rows, resp |-> Json(404, "Post not found.")]
          ELSE [rows |-> u.rows, resp |-> JsonData(200, u.data)]

PUT ==
  /\ req = NoReq
  /\ \E auth \in Headers, slug \in Slugs,
        body \in {Unparseable} \cup {Parsed(b) : b \in PutBodies}, fail \in BOOLEAN :
       /\ fail => (isAuthorized(auth, secret) /\ body.parses)
       /\ LET r == PutResult(store, now, slug, auth, secret, body, fail)
          IN /\ req' = [op |-> "PUT", auth |-> auth, slug |-> slug, body |-> body, fail |-> fail]
             /\ resp' = r.resp
             /\ store' = r.rows
  /\ before' = store
  /\ UNCHANGED <<secret, now, others>>

----------------------------------------------------------------------------
(* DELETE /api/blog/[slug] *)

\* .delete() without .eq("slug", slug)
DeleteResult_all(rows, slug, auth, adminPassword, fail) ==
  IF ~isAuthorized(auth, adminPassword)
    THEN [rows |-> rows, resp |-> Json(401, "Unauthorized")]
  ELSE IF fail
    THEN [rows |-> rows, resp |-> StoreError]
  ELSE [rows |-> {}, resp |-> Json(200, "")]

DeleteResult(rows, slug, auth, adminPassword, fail) ==
  IF ~isAuthorized(auth, adminPassword)
    THEN [rows |-> rows, resp |-> Json(401, "Unauthorized")]
  ELSE IF fail
    THEN [rows |-> rows, resp |-> StoreError]
  ELSE [rows |-> {p \in rows : p.slug # slug}, resp |-> Json(200, "")]

DELETE ==
  /\ req = NoReq
  /\ \E auth \in Headers, slug \in Slugs, fail \in BOOLEAN :
       /\ fail => isAuthorized(auth, secret)
       /\ LET r == DeleteResult(store, slug, auth, secret, fail)
          IN /\ req' = [op |-> "DELETE", auth |-> auth, slug |-> slug, fail |-> fail]
             /\ resp' = r.resp
             /\ store' = r.rows
  /\ before' = store
  /\ UNCHANGED <<secret, now, others>>

----------------------------------------------------------------------------
(* Environment *)

\* the response is sent; the handler is ready for the next request
Respond ==
  /\ req # NoReq
  /\ req' = NoReq
  /\ resp' = NoResp
  /\ before' = {}
  /\ UNCHANGED <<secret, store, now, others>>

Tick ==
  /\ req = NoReq
  /\ now < MaxTime
  /\ now' = now + 1
  /\ UNCHANGED <<secret, store, req, resp, before, others>>

\* the editor is not open
NoForm == [open |-> FALSE]

\* the connections of the lead API
Conns == {"c1", "c2"}

Idle == [pc |-> "idle"]

\* the admin page is not open, the module of the API handles is not
\* imported, the progress bar is not mounted
NoUi == [mounted |-> FALSE]
NoLazy == [imported |-> FALSE]
NoNav == [mounted |-> FALSE]

InitPages ==
  /\ ui = NoUi
  /\ lazy = NoLazy
  /\ nav = NoNav

\* no leads.json yet, no submission in flight
InitLeads ==
  /\ leadsFile = <<>>
  /\ leadReq = [c \in Conns |-> Idle]
  /\ uuids = 0
  /\ answered = {}

Init ==
  /\ secret \in Secrets
  /\ store = {}
  /\ now = 0
  /\ req = NoReq
  /\ resp = NoResp
  /\ before = {}
  /\ form = NoForm
  /\ InitLeads
  /\ puts = <<>>
  /\ InitPages

Next == LIST \/ GET \/ POST \/ PUT \/ DELETE \/ Respond \/ Tick

Spec == Init /\ [][Next]_vars

----------------------------------------------------------------------------
(* Vocabulary of the properties *)

\* the request carries the authorization header and its value is the
\* configured secret
Correct(h) == h # JSNull /\ secret # JSUndefined /\ h = secret

Done == req # NoReq
IsWrite == Done /\ req.op \in {"POST", "PUT", "DELETE"}
Anonymous == Done /\ ~Correct(req.auth)

Drafts(rows) == {p \in rows : ~p.published}

\* the row of `rows` that continues row p (identifiers never change)
After(rows, p) == {q \in rows : q.id = p.id}

NotFound == Json(404, "Post not found.")

----------------------------------------------------------------------------
(* C1: a write request (POST, PUT, DELETE) without the correct             *)
(* authorization header is answered 401 and leaves blog_posts unchanged,   *)
(* whatever its body and whether or not its slug names a post.             *)
C1_UnauthorizedWriteRejected ==
  (IsWrite /\ ~Correct(req.auth)) =>
    (resp = Json(401, "Unauthorized") /\ store = before)

C1_Witness ==
  /\ Done /\ req.op = "PUT" /\ req.auth = "bad"
  /\ req.body.parses /\ Has(req.body.json, "title")
  /\ \E p \in store : p.slug = req.slug /\ p.title # req.body.json.title
  /\ resp.status = 401

(* C2: the gate is true exactly when the header is present and equals the  *)
(* configured secret; a missing header is unauthorized also when no secret *)
(* is configured; the gate decides every write and changes nothing.        *)
C2_GateExact ==
  /\ \A h \in Headers : isAuthorized(h, secret) = Correct(h)
  /\ IsWrite => ((resp.status = 401) = ~Correct(req.auth))
  /\ (Done /\ req.op \in {"GET", "LIST"}) => store = before

C2_Witness ==
  /\ secret = JSUndefined
  /\ Done /\ req.op = "POST" /\ req.auth = JSNull
  /\ req.body.parses /\ PostValid(req.body.json)
  /\ resp.status = 401

(* C3: whenever the store answers, an anonymous GET by the slug of a       *)
(* stored post p returns p (200) if p is published and 404 otherwise:      *)
(* for every post of the table between requests, and for each such GET     *)
(* that was answered.                                                      *)
C3_AnonymousGetIffPublished ==
  /\ \A p \in store : \A h \in Headers :
       (~Done /\ ~Correct(h)) =>
         GetResponse(store, p.slug, h, secret, FALSE)
           = IF p.published THEN JsonData(200, {p}) ELSE NotFound
  /\ (Anonymous /\ req.op = "GET" /\ ~req.fail) =>
       \A p \in before :
         p.slug = req.slug =>
           resp = IF p.published THEN JsonData(200, {p}) ELSE NotFound

C3_Witness ==
  /\ Anonymous /\ req.op = "GET" /\ req.auth = JSNull
  /\ resp.status = 200
  /\ \E p \in store : p.slug = req.slug /\ p.published /\ resp.data = {p}
  /\ Drafts(store) # {}

(* C4: anonymous responses do not depend on the drafts: removing any set   *)
(* of unpublished posts from the store leaves every anonymous list and     *)
(* get-by-slug response as it is, and a draft's slug is answered like a    *)
(* slug no post ever had.                                                  *)
C4_DraftsDoNotLeak ==
  /\ ~Done =>
       \A D \in SUBSET Drafts(store) : \A h \in Headers : \A f \in BOOLEAN :
         ~Correct(h) =>
           /\ ListResponses(store \ D, h, secret, f) = ListResponses(store, h, secret, f)
           /\ \A s \in Slugs :
                GetResponse(store \ D, s, h, secret, f) = GetResponse(store, s, h, secret, f)
  /\ (Anonymous /\ req.op = "GET") =>
       ((\E p \in Drafts(before) : p.slug = req.slug) =>
          resp = GetResponse({}, req.slug, req.auth, secret, req.fail))
  /\ (Anonymous /\ req.op = "LIST") =>
       resp \in ListResponses(before \ Drafts(before), req.auth, secret, req.fail)

C4_Witness ==
  /\ Anonymous /\ req.op = "LIST" /\ ~req.fail
  /\ Drafts(store) # {} /\ Drafts(store) # store
  /\ Len(resp.list) = 1

(* C5: whenever the store answers, the list is ordered by created_at       *)
(* descending and holds exactly the published posts for an unauthorized    *)
(* caller and all posts for an authorized one.                             *)
C5_ListOrderedAndFiltered ==
  (Done /\ req.op = "LIST" /\ ~req.fail) =>
    LET visible == IF Correct(req.auth) THEN before
                   ELSE {p \in before : p.published}
        l == resp.list
    IN /\ resp.status = 200
       /\ Len(l) = Cardinality(visible)
       /\ {l[i] : i \in 1..Len(l)} = {[f \in ListFields |-> p[f]] : p \in visible}
       /\ \A i \in 1..Len(l) : \A j \in 1..Len(l) :
            i < j => l[i].created_at >= l[j].created_at

C5_Witness ==
  /\ Done /\ req.op = "LIST" /\ Correct(req.auth) /\ ~req.fail
  /\ Len(resp.list) = 2
  /\ resp.list[1].created_at > resp.list[2].created_at
  /\ Drafts(store) # {}

Missing(b) ==
  \/ ~Has(b, "title") \/ b.title = ""
  \/ ~Has(b, "slug") \/ b.slug = ""

(* C6, as claimed: every create request whose body lacks title or slug     *)
(* (absent or empty) is answered 400 and persists nothing.                 *)
C6_Original ==
  (Done /\ req.op = "POST" /\ req.body.parses /\ Missing(req.body.json)) =>
    (resp.status = 400 /\ store = before)

(* C6, amended: an authorized create request whose body lacks title or     *)
(* slug is answered 400 (validation error); an unauthorized one is         *)
(* answered 401; neither persists a record.                                *)
C6_MissingTitleOrSlugRejected ==
  (Done /\ req.op = "POST" /\ req.body.parses /\ Missing(req.body.json)) =>
    /\ store = before
    /\ resp = IF Correct(req.auth)
                THEN Json(400, "Title and slug are required.")
                ELSE Json(401, "Unauthorized")

C6_Witness ==
  /\ Done /\ req.op = "POST" /\ Correct(req.auth) /\ req.body.parses
  /\ Has(req.body.json, "title") /\ req.body.json.title = "T"
  /\ Has(req.body.json, "slug") /\ req.body.json.slug = ""
  /\ resp.status = 400

(* C7: published_at is the time of the first publication.  A post whose    *)
(* published_at is set has been published before (see C8), so the claim    *)
(* says that no later update changes a published_at that is set: not an    *)
(* unpublish followed by a re-publish, nor saving a published post again.  *)
C7_FirstPublicationKept ==
  (Done /\ req.op = "PUT") =>
    \A p \in before : \A q \in After(store, p) :
      p.published_at # None => q.published_at = p.published_at

(* C8: an update never clears published_at, and an update that sets        *)
(* published = false or does not mention published leaves it as it was.    *)
C8_PublishedAtNeverCleared ==
  (Done /\ req.op = "PUT") =>
    \A p \in before : \A q \in After(store, p) :
      /\ p.published_at # None => q.published_at # None
      /\ ~(req.body.parses /\ Has(req.body.json, "published")
             /\ req.body.json.published = TRUE)
           => q.published_at = p.published_at

C8_Witness ==
  /\ Done /\ req.op = "PUT" /\ resp.status = 200
  /\ Has(req.body.json, "published") /\ req.body.json.published = FALSE
  /\ \E p \in before : \E q \in resp.data :
       /\ q.id = p.id /\ p.published /\ ~q.published
       /\ q.published_at # None /\ q.published_at = p.published_at

\* the row an update that succeeded returns
Updated == resp.data

PublishingUpdate ==
  /\ Done /\ req.op = "PUT" /\ resp.status = 200
  /\ Has(req.body.json, "published") /\ req.body.json.published = TRUE

(* C9, as claimed: after an authorized update that sets published = true,  *)
(* published_at is the supplied value if the body supplies one and the     *)
(* processing time if it does not.                                         *)
C9_Original ==
  PublishingUpdate =>
    \A q \in Updated :
      /\ q \in store
      /\ q.published_at = IF Has(req.body.json, "published_at")
                            THEN req.body.json.published_at
                            ELSE Some(now)

(* C9, amended: published_at is the supplied value if the body supplies a  *)
(* non-null, non-empty one, and the processing time if published_at is     *)
(* absent, null or empty.                                                  *)
C9_PublishedAtOnPublish ==
  PublishingUpdate =>
    \A q \in Updated :
      /\ q \in store
      /\ q.published_at = IF Has(req.body.json, "published_at")
                               /\ req.body.json.published_at # None
                            THEN req.body.json.published_at
                            ELSE Some(now)

C9_Witness ==
  /\ PublishingUpdate /\ now # 0
  /\ Has(req.body.json, "published_at") /\ req.body.json.published_at = Some(0)
  /\ \E q \in Updated : q.published_at = Some(0)
  /\ \E p \in before : p.slug = req.slug /\ p.published_at # Some(0)

CopiedFields ==
  {"title", "slug", "excerpt", "content", "cover_image_url", "author", "published"}

SuccessfulUpdate == Done /\ req.op = "PUT" /\ resp.status = 200

(* C10, as claimed: an authorized update changes only the fields present   *)
(* in the body; every absent field keeps its value (updated_at, refreshed  *)
(* to the current time, apart); no other post changes.                     *)
C10_Original ==
  SuccessfulUpdate =>
    \E p \in before : \E q \in store :
      /\ p.slug = req.slug /\ q.id = p.id
      /\ store \ {q} = before \ {p}
      /\ q.updated_at = now
      /\ \A f \in PostFields \ {"updated_at"} :
           ~Has(req.body.json, f) => q[f] = p[f]

(* C10, amended: as claimed, except for published_at: it is set (to the    *)
(* supplied non-null value, else to the current time) exactly when the     *)
(* body sets published = true, also when the body does not carry it, and a *)
(* published_at supplied without published = true is ignored.              *)
C10_PartialUpdate ==
  SuccessfulUpdate =>
    \E p \in before : \E q \in store :
      /\ p.slug = req.slug /\ q.id = p.id
      /\ resp.data = {q}
      /\ store \ {q} = before \ {p}
      /\ q.updated_at = now
      /\ q.id = p.id /\ q.created_at = p.created_at
      /\ \A f \in CopiedFields :
           q[f] = IF Has(req.body.json, f) THEN req.body.json[f] ELSE p[f]
      /\ q.published_at =
           IF Has(req.body.json, "published") /\ req.body.json.published = TRUE
             THEN IF Has(req.body.json, "published_at")
                       /\ req.body.json.published_at # None
                    THEN req.body.json.published_at
                    ELSE Some(now)
             ELSE p.published_at

C10_Witness ==
  /\ SuccessfulUpdate /\ req.body.json = Empty
  /\ Cardinality(store) = 2
  /\ \E p \in before : \E q \in store :
       /\ q.id = p.id /\ p.slug = req.slug
       /\ p.updated_at # now /\ q = [p EXCEPT !.updated_at = now]

AuthorizedPut ==
  Done /\ req.op = "PUT" /\ Correct(req.auth) /\ req.body.parses

(* C11: an authorized update whose slug matches no post is answered 404    *)
(* "Post not found.", which is neither the 401 of the gate nor the 500 of  *)
(* a store failure, and changes no post.                                   *)
C11_UnknownSlugNotFound ==
  (AuthorizedPut /\ ~req.fail /\ ~\E p \in before : p.slug = req.slug) =>
    (resp = NotFound /\ store = before)

AuthorizedDelete == Done /\ req.op = "DELETE" /\ Correct(req.auth)

(* C12: an authorized DELETE is always answered (200, or 500 when the      *)
(* store fails, which changes nothing); when the store answers, the posts  *)
(* left are exactly the posts of other slugs, each unchanged, so no post   *)
(* of the slug is left, and a DELETE of a slug that names no post (a       *)
(* repeated DELETE among them) leaves the table as it was.                 *)
C12_DeleteBySlug ==
  AuthorizedDelete =>
    /\ resp.status = (IF req.fail THEN 500 ELSE 200)
    /\ req.fail => store = before
    /\ ~req.fail =>
         /\ ~\E p \in store : p.slug = req.slug
         /\ \A p \in before : p.slug # req.slug => p \in store
         /\ store \subseteq before
    /\ (~\E p \in before : p.slug = req.slug) => store = before

C12_Witness ==
  /\ AuthorizedDelete /\ ~req.fail /\ resp.status = 200
  /\ Cardinality(before) = 2 /\ Cardinality(store) = 1
  /\ \E p \in before : p.slug = req.slug
  /\ DeleteResult(store, req.slug, req.auth, secret, FALSE).rows = store

(* C14: whenever the store reports a failure during an operation of the    *)
(* Content API, the response is the generic failure (500) that carries the *)
(* message of the store.                                                   *)
C14_StoreFailureReported ==
  (Done /\ req.fail) => resp = StoreError

----------------------------------------------------------------------------
(* Create followed by get: bodies of exactly {title, slug, content}        *)

RoundTripBodies ==
  { [title |-> t, slug |-> s, content |-> c] :
      t \in {"T", "X"}, s \in Slugs, c \in {"", "C"} }

\* POST /api/blog with a body of RoundTripBodies
CreatePost ==
  /\ req = NoReq
  /\ \E auth \in Headers, b \in RoundTripBodies, fail \in BOOLEAN :
       /\ fail => PostReachesStore(auth, Parsed(b))
       /\ LET r == PostResult(store, now, auth, secret, Parsed(b), fail)
          IN /\ req' = [op |-> "POST", auth |-> auth, body |-> Parsed(b), fail |-> fail]
             /\ resp' = r.resp
             /\ store' = r.rows
  /\ before' = store
  /\ UNCHANGED <<secret, now, others>>

NextRoundTrip == CreatePost \/ GET \/ DELETE \/ Respond \/ Tick

SpecRoundTrip == Init /\ [][NextRoundTrip]_vars

Created ==
  /\ Done /\ req.op = "POST" /\ Correct(req.auth) /\ resp.status = 201
  /\ DOMAIN req.body.json = {"title", "slug", "content"}

(* C13: after an authorized create with exactly {title, slug, content},    *)
(* an authorized get by that slug returns one post: the three supplied     *)
(* fields unchanged, an id no other post has, created_at and updated_at of *)
(* the creation, author "Stalela", published false and published_at null   *)
(* (excerpt and cover image null); it is the post the create returned.     *)
C13_CreateThenGet ==
  /\ Created =>
       LET b == req.body.json
           got == GetResponse(store, b.slug, req.auth, secret, FALSE)
       IN /\ got.status = 200 /\ got.data = resp.data
          /\ \E row \in got.data :
               /\ got.data = {row}
               /\ row.title = b.title /\ row.slug = b.slug /\ row.content = b.content
               /\ \A p \in before : p.id # row.id
               /\ row.created_at = now /\ row.updated_at = now
               /\ row.author = DefaultAuthor
               /\ row.published = FALSE /\ row.published_at = None
               /\ row.excerpt = JSNull /\ row.cover_image_url = JSNull
  /\ (Done /\ req.op = "GET" /\ Correct(req.auth) /\ resp.status = 200) =>
       \E row \in store : row.slug = req.slug /\ resp.data = {row}

C13_Witness ==
  /\ Created /\ now = 1 /\ req.body.json.content = "C"
  /\ \E p \in before : p.created_at = 0 /\ p.title # req.body.json.title
  /\ \E row \in store : row.slug = req.body.json.slug /\ row.content = "C" /\ row.id = 2

----------------------------------------------------------------------------
(* The post editor (EditorContent) and the slug it sends                   *)

\* the texts typed as a title, typed into the slug field or sent as a slug,
\* and what slugify makes of them; a text is handled as its characters
TitleInputs == {"", "My Post!"}
SlugInputs == {"", "my post"}
Text == TitleInputs \cup SlugInputs \cup {"my-post"}

Chars(s) ==
  CASE s = "" -> <<>>
    [] s = "My Post!" -> <<"M", "y", " ", "P", "o", "s", "t", "!">>
    [] s = "my-post" -> <<"m", "y", "-", "p", "o", "s", "t">>
    [] s = "my post" -> <<"m", "y", " ", "p", "o", "s", "t">>

Str(cs) == CHOOSE s \in Text : Chars(s) = cs

UpperCase ==
  <<"A", "B", "C", "D", "E", "F", "G", "H", "I", "J", "K", "L", "M",
    "N", "O", "P", "Q", "R", "S", "T", "U", "V", "W", "X", "Y", "Z">>
LowerCase ==
  <<"a", "b", "c", "d", "e", "f", "g", "h", "i", "j", "k", "l", "m",
    "n", "o", "p", "q", "r", "s", "t", "u", "v", "w", "x", "y", "z">>
Digits == {"0", "1", "2", "3", "4", "5", "6", "7", "8", "9"}

Range(f) == {f[i] : i \in DOMAIN f}

\* [a-z0-9]
AlNum == Range(LowerCase) \cup Digits

toLowerCase(cs) ==
  [i \in DOMAIN cs |->
     IF cs[i] \in Range(UpperCase)
       THEN LowerCase[CHOOSE k \in DOMAIN UpperCase : UpperCase[k] = cs[i]]
       ELSE cs[i]]

\* cs without its longest prefix outside [a-z0-9]
RECURSIVE SkipRun(_)
SkipRun(cs) ==
  IF cs = <<>> \/ Head(cs) \in AlNum THEN cs ELSE SkipRun(Tail(cs))

\* .replace(/[^a-z0-9]+/g, "-")
RECURSIVE ReplaceRuns(_)
ReplaceRuns(cs) ==
  IF cs = <<>> THEN <<>>
  ELSE IF Head(cs) \in AlNum THEN <<Head(cs)>> \o ReplaceRuns(Tail(cs))
  ELSE <<"-">> \o ReplaceRuns(SkipRun(cs))

\* .replace(/^-|-$/g, "")
TrimDash(cs) ==
  LET a == IF cs # <<>> /\ Head(cs) = "-" THEN Tail(cs) ELSE cs
  IN IF a # <<>> /\ a[Len(a)] = "-" THEN SubSeq(a, 1, Len(a) - 1) ELSE a

slugify(text) == Str(TrimDash(ReplaceRuns(toLowerCase(Chars(text)))))

emptyForm ==
  [title |-> "", slug |-> "", excerpt |-> "", author |-> "Stalela",
   cover_image_url |-> "", content |-> "", published |-> FALSE]

FormFields == DOMAIN emptyForm

\* JSON.stringify(form)
FormBody == [f \in FormFields |-> form[f]]

\* the editor's password: sessionStorage admin_password, which holds the
\* secret when the admin page is not part of the run
EditorPassword == IF ui = NoUi THEN secret ELSE ui.session

\* the editor stays open only with a password (else it redirects to the admin
\* page), and the admin page is left when the editor opens
EditorReady == IF ui = NoUi THEN TRUE ELSE ~ui.mounted /\ ui.session # ""

\* the editor opened without ?slug=
OpenNew ==
  /\ form = NoForm /\ EditorReady
  /\ form' = emptyForm @@ [open |-> TRUE, isEdit |-> FALSE, editSlug |-> JSNull, error |-> ""]
  /\ UNCHANGED <<blogVars, leadVars, puts, pageVars>>

\* the editor opened with ?slug= of a stored post: fetchPost fills the form
OpenEdit ==
  /\ form = NoForm /\ req = NoReq /\ EditorReady
  /\ \E p \in store :
       LET r == GetResponse(store, p.slug, EditorPassword, secret, FALSE)
       IN /\ r.status = 200
          /\ \E data \in r.data :
               form' = [title |-> data.title, slug |-> data.slug,
                        excerpt |-> OrElseS(data, "excerpt", ""),
                        author |-> OrElseS(data, "author", "Stalela"),
                        cover_image_url |-> OrElseS(data, "cover_image_url", ""),
                        content |-> data.content, published |-> data.published,
                        open |-> TRUE, isEdit |-> TRUE, editSlug |-> p.slug,
                        error |-> ""]
  /\ UNCHANGED <<blogVars, leadVars, puts, pageVars>>

\* updateField("title", value)
TypeTitle ==
  /\ form # NoForm
  /\ \E value \in TitleInputs :
       form' = IF ~form.isEdit
                 THEN [form EXCEPT !.title = value, !.slug = slugify(value)]
                 ELSE [form EXCEPT !.title = value]
  /\ UNCHANGED <<blogVars, leadVars, puts, pageVars>>

\* updateField("slug", value)
TypeSlug ==
  /\ form # NoForm
  /\ \E value \in SlugInputs : form' = [form EXCEPT !.slug = value]
  /\ UNCHANGED <<blogVars, leadVars, puts, pageVars>>

\* handleSave: POST, or PUT to editSlug, with the form as body
handleSave ==
  /\ form # NoForm /\ req = NoReq
  /\ IF form.title = "" \/ form.slug = ""
       THEN /\ form' = [form EXCEPT !.error = "Title and slug are required."]
            /\ UNCHANGED <<store, req, resp, before>>
       ELSE \E fail \in BOOLEAN :
              /\ form.isEdit \/ Cardinality(store) < MaxPosts
              /\
                 LET r == IF form.isEdit
                            THEN PutResult(store, now, form.editSlug, EditorPassword, secret,
                                           Parsed(FormBody), fail)
                            ELSE PostResult(store, now, EditorPassword, secret,
                                            Parsed(FormBody), fail)
                 IN /\ req' = [op |-> IF form.isEdit THEN "PUT" ELSE "POST",
                               auth |-> EditorPassword, slug |-> form.editSlug,
                               body |-> Parsed(FormBody), fail |-> fail]
                    /\ resp' = r.resp
                    /\ store' = r.rows
                    /\ before' = store
                    /\ form' = IF r.resp.status \in {200, 201}
                                 THEN NoForm
                                 ELSE [form EXCEPT !.error = "Failed to save."]
  /\ UNCHANGED <<secret, now, leadVars, puts, pageVars>>

\* POST /api/blog sent without the editor, the slug as the caller wrote it
PostDirect ==
  /\ req = NoReq
  /\ Cardinality(store) < MaxPosts
  /\ \E slug \in SlugInputs, fail \in BOOLEAN :
       LET body == Parsed([title |-> "My Post!", slug |-> slug])
           r == PostResult(store, now, secret, secret, body, fail)
       IN /\ fail => PostValid(body.json)
          /\ req' = [op |-> "POST", auth |-> secret, body |-> body, fail |-> fail]
          /\ resp' = r.resp
          /\ store' = r.rows
  /\ before' = store
  /\ UNCHANGED <<secret, now, others>>

\* PUT /api/blog/[slug] sent without the editor, renaming the post
PutDirect ==
  /\ req = NoReq
  /\ \E p \in store, slug \in SlugInputs, fail \in BOOLEAN :
       LET body == Parsed([slug |-> slug])
           r == PutResult(store, now, p.slug, secret, secret, body, fail)
       IN /\ req' = [op |-> "PUT", auth |-> secret, slug |-> p.slug,
                     body |-> body, fail |-> fail]
          /\ resp' = r.resp
          /\ store' = r.rows
  /\ before' = store
  /\ UNCHANGED <<secret, now, others>>

InitEditor ==
  /\ secret = "pw"
  /\ store = {}
  /\ now = 0
  /\ req = NoReq
  /\ resp = NoResp
  /\ before = {}
  /\ form = NoForm
  /\ InitLeads
  /\ puts = <<>>
  /\ InitPages

NextEditor ==
  \/ OpenNew \/ OpenEdit \/ TypeTitle \/ TypeSlug \/ handleSave
  \/ PostDirect \/ PutDirect \/ Respond

SpecEditor == InitEditor /\ [][NextEditor]_vars

\* only characters that stand for themselves in a URL path segment
UrlPathSafe(s) ==
  /\ s # ""
  /\ \A c \in Range(Chars(s)) :
       c \in AlNum \cup Range(UpperCase) \cup {"-", ".", "_", "~"}

(* C15: after any sequence of authorized creates and updates, the slug of  *)
(* every stored post is URL-path-safe, whether the editor derived it from  *)
(* the title, the admin typed it into the slug field, or a POST or PUT     *)
(* body supplied it.                                                       *)
C15_StoredSlugsUrlSafe ==
  \A p \in store : UrlPathSafe(p.slug)

----------------------------------------------------------------------------
(* POST /api/lead: validation, then read - append - write of leads.json    *)

\* JSON values of a lead body, with their typeof
Txt(s) == [t |-> "string", s |-> s]
Num(n) == [t |-> "number", n |-> n]
\* the strings crypto.randomUUID() and new Date().toISOString() return
Uuid(n) == [t |-> "string", uuid |-> n]
Iso(time) == [t |-> "string", time |-> time]

\* !obj.k is false
TruthyV(obj, k) == Has(obj, k) /\ obj[k] # Txt("") /\ obj[k] # Num(0)

\* !body.k || typeof body.k !== "string" is false
IsText(obj, k) == TruthyV(obj, k) /\ obj[k].t = "string"

LeadBodies ==
  { e @@ s @@ x :
      e \in {Empty, [email |-> Txt("")], [email |-> Num(7)], [email |-> Txt("a@x")]},
      s \in {Empty, [source |-> Txt("")], [source |-> Num(7)],
             [source |-> Txt("newsletter")]},
      x \in {Empty, [id |-> Txt("mine")], [createdAt |-> Txt("old")]} }

\* a body that is the JSON text null: request.json() returns null
NullBody == [parses |-> TRUE, isNull |-> TRUE]

LeadJson(status, error) == [status |-> status, error |-> error]
LeadCreated(id) == [status |-> 201, success |-> TRUE, id |-> id]
InvalidRequest == LeadJson(400, "Invalid request.")

\* only the email is tested
LeadError_emailOnly(body) ==
  IF ~IsText(body, "email") THEN "Email is required." ELSE ""

\* the message of the failed validation, "" when the body passes
LeadError(body) ==
  IF ~IsText(body, "email") THEN "Email is required."
  ELSE IF ~IsText(body, "source") THEN "Source is required."
  ELSE ""

\* { id: crypto.randomUUID(), ...body, createdAt: new Date().toISOString() }
NewLead(body, uuid, time) ==
  ("createdAt" :> Iso(time)) @@ body @@ ("id" :> Uuid(uuid))

\* request.json() settles: validation, the lead, fs.mkdir is called
LeadReceive(c) ==
  /\ leadReq[c] = Idle
  /\ uuids < MaxLeads
  /\ \E body \in {Unparseable, NullBody} \cup {Parsed(b) : b \in LeadBodies} :
       IF ~body.parses \/ Has(body, "isNull")
         THEN /\ leadReq' = [leadReq EXCEPT ![c] =
                   [pc |-> "done", body |-> body, resp |-> InvalidRequest]]
              /\ UNCHANGED uuids
       ELSE IF LeadError(body.json) # ""
         THEN /\ leadReq' = [leadReq EXCEPT ![c] =
                   [pc |-> "done", body |-> body,
                    resp |-> LeadJson(400, LeadError(body.json))]]
              /\ UNCHANGED uuids
       ELSE /\ uuids' = uuids + 1
            /\ leadReq' = [leadReq EXCEPT ![c] =
                 [pc |-> "read", body |-> body, uuid |-> uuids + 1,
                  lead |-> NewLead(body.json, uuids + 1, now)]]
  /\ UNCHANGED <<blogVars, form, puts, leadsFile, answered, pageVars>>

\* fs.mkdir settles, then fs.readFile: leads is the parsed file, or [] when
\* the read fails; leads.push(lead); fs.writeFile is called with the text
LeadRead(c) ==
  /\ leadReq[c].pc = "read"
  /\ \E mkdirFails, readFails \in BOOLEAN :
       /\ readFails => leadsFile # <<>>
       /\ leadReq' = [leadReq EXCEPT ![c] =
            IF mkdirFails
              THEN [pc |-> "done", body |-> @.body, resp |-> InvalidRequest]
              ELSE [pc |-> "write", body |-> @.body, uuid |-> @.uuid, lead |-> @.lead,
                    leads |-> Append(IF readFails THEN <<>> ELSE leadsFile, @.lead)]]
  /\ UNCHANGED <<blogVars, form, puts, leadsFile, uuids, answered, pageVars>>

\* fs.writeFile settles: the file is replaced and 201 is answered, or the
\* write fails and the outer catch answers
LeadWrite(c) ==
  /\ leadReq[c].pc = "write"
  /\ \E writeFails \in BOOLEAN :
       IF writeFails
         THEN /\ leadReq' = [leadReq EXCEPT ![c] =
                   [pc |-> "done", body |-> @.body, resp |-> InvalidRequest]]
              /\ UNCHANGED <<leadsFile, answered>>
         ELSE /\ leadsFile' = leadReq[c].leads
              /\ answered' = answered \cup {leadReq[c].lead}
              /\ leadReq' = [leadReq EXCEPT ![c] =
                   [pc |-> "done", body |-> @.body, uuid |-> @.uuid, lead |-> @.lead,
                    resp |-> LeadCreated(@.lead.id),
                    fileBefore |-> leadsFile, written |-> @.leads,
                    issuedBefore |-> {l.id : l \in answered}]]
  /\ UNCHANGED <<blogVars, form, puts, uuids, pageVars>>

\* the response is sent
LeadRespond(c) ==
  /\ leadReq[c].pc = "done"
  /\ leadReq' = [leadReq EXCEPT ![c] = Idle]
  /\ UNCHANGED <<blogVars, form, puts, leadsFile, uuids, answered, pageVars>>

Receive == \E c \in Conns : LeadReceive(c)
ReadLeads == \E c \in Conns : LeadRead(c)
WriteLeads == \E c \in Conns : LeadWrite(c)
RespondLead == \E c \in Conns : LeadRespond(c)

NextLeads == Receive \/ ReadLeads \/ WriteLeads \/ RespondLead

SpecLeads == InitEditor /\ [][NextLeads]_vars

----------------------------------------------------------------------------
(* Properties of the lead API *)

\* an object body in which the member k is absent, falsy or not text
Lacks(body, k) ==
  /\ body.parses /\ ~Has(body, "isNull")
  /\ ~(TruthyV(body.json, k) /\ body.json[k].t = "string")

\* connection c takes a request in this step
Arrives(c) == leadReq[c] = Idle /\ leadReq'[c] # Idle

(* C16: a lead submission whose email is absent or not text, or whose      *)
(* source is absent or not text, is answered 400 with the message of the   *)
(* field (the email first) in the step that validates it: it goes no       *)
(* further, generates no id and leaves leads.json as it was.               *)
C16_InvalidLeadRejected ==
  [][\A c \in Conns :
       (Arrives(c) /\ (Lacks(leadReq'[c].body, "email")
                         \/ Lacks(leadReq'[c].body, "source"))) =>
         /\ leadReq'[c].pc = "done"
         /\ leadReq'[c].resp =
              LeadJson(400, IF Lacks(leadReq'[c].body, "email")
                              THEN "Email is required."
                              ELSE "Source is required.")
         /\ leadsFile' = leadsFile
         /\ uuids' = uuids]_vars

C16_Witness ==
  /\ leadsFile # <<>>
  /\ \E c \in Conns :
       /\ leadReq[c].pc = "done"
       /\ leadReq[c].body = Parsed([source |-> Txt("newsletter")])
       /\ leadReq[c].resp = LeadJson(400, "Email is required.")
  /\ \E c \in Conns :
       /\ leadReq[c].pc = "done"
       /\ leadReq[c].body = Parsed([email |-> Txt("a@x"), source |-> Num(7)])
       /\ leadReq[c].resp = LeadJson(400, "Source is required.")

Accepted(c) == leadReq[c].pc = "done" /\ leadReq[c].resp.status = 201

(* C17: for a submission with valid email and source, whatever else the    *)
(* body carries, the response carries the id generated for this request,   *)
(* no earlier response carried it, the persisted record carries it, and    *)
(* leads.json holds exactly one record more than before the write.         *)
C17_FreshIdOneMoreRecord ==
  \A c \in Conns :
    Accepted(c) =>
      /\ leadReq[c].resp.id = Uuid(leadReq[c].uuid)
      /\ leadReq[c].resp.id \notin leadReq[c].issuedBefore
      /\ leadReq[c].lead.id = leadReq[c].resp.id
      /\ Len(leadReq[c].written) = Len(leadReq[c].fileBefore) + 1

Quiet == \A c \in Conns : leadReq[c].pc \in {"idle", "done"}

(* C18: once every submission in flight has been answered, leads.json      *)
(* holds every lead that was reported successful.                          *)
C18_EveryAnsweredLeadStored ==
  Quiet => \A l \in answered : l \in Range(leadsFile)

(* C19: an unparseable body is answered with the generic "Invalid          *)
(* request." and writes nothing, and this answer is given to no request    *)
(* whose body is a JSON object.                                            *)
C19_InvalidRequestOnlyUnparseable ==
  \A c \in Conns :
    leadReq[c].pc = "done" =>
      /\ ~leadReq[c].body.parses => leadReq[c].resp = InvalidRequest
      /\ leadReq[c].resp = InvalidRequest =>
           (~leadReq[c].body.parses \/ Has(leadReq[c].body, "isNull"))

----------------------------------------------------------------------------
(* Two PUT requests to the post of slug "s1", in flight together           *)

Reqs == {"a", "b"}

TitleOf == [a |-> "Ta", b |-> "Tb"]
ContentOf == [a |-> "Ca", b |-> "Cb"]

\* the bodies request r may carry: its own title and content
TwoPutBodies(r) ==
  { c @@ s @@ p @@ a :
      c \in {Empty, [title |-> TitleOf[r]],
             [title |-> TitleOf[r], content |-> ContentOf[r]]},
      s \in {Empty, [slug |-> "s2"]},
      p \in {Empty, [published |-> TRUE], [published |-> FALSE]},
      a \in {Empty, [published_at |-> None], [published_at |-> Some(0)]} }

\* request r passed the gate and request.json() settled: new Date() is read
PutBuild(r) ==
  /\ puts[r].pc = "start"
  /\ puts' = [puts EXCEPT ![r] = [pc |-> "built", body |-> @.body, t |-> now]]
  /\ UNCHANGED <<blogVars, form, leadVars, pageVars>>

\* the store runs the update of request r; the handler answers
PutApply(r) ==
  /\ puts[r].pc = "built"
  /\ \E fail \in BOOLEAN :
       LET res == PutResult(store, puts[r].t, "s1", secret, secret,
                            Parsed(puts[r].body), fail)
       IN /\ store' = res.rows
          /\ puts' = [puts EXCEPT ![r] =
               [pc |-> "done", body |-> @.body, t |-> @.t, resp |-> res.resp,
                rowsBefore |-> store,
                order |-> 1 + Cardinality({x \in Reqs : puts[x].pc = "done"})]]
  /\ UNCHANGED <<secret, now, req, resp, before, form, leadVars, pageVars>>

Build == \E r \in Reqs : PutBuild(r)
Apply == \E r \in Reqs : PutApply(r)

\* blog_posts holds one post of slug "s1", a draft or published at time 0
InitTwoPuts ==
  /\ secret = "pw"
  /\ \E p \in {Empty, [published |-> TRUE]} :
       store = {NewRow(InsertValues([title |-> "T", slug |-> "s1"] @@ p, 0), 1, 0)}
  /\ now = 0
  /\ req = NoReq
  /\ resp = NoResp
  /\ before = {}
  /\ form = NoForm
  /\ InitLeads
  /\ InitPages
  /\ \E ba \in TwoPutBodies("a"), bb \in TwoPutBodies("b") :
       puts = [r \in Reqs |-> [pc |-> "start", body |-> IF r = "a" THEN ba ELSE bb]]

NextTwoPuts == Build \/ Apply \/ Tick

SpecTwoPuts == InitTwoPuts /\ [][NextTwoPuts]_vars

\* both requests were applied by the store and answered 200
BothApplied ==
  \A r \in Reqs : puts[r].pc = "done" /\ puts[r].resp.status = 200

\* the request the store applied first, and the one it applied last
First == CHOOSE r \in Reqs : puts[r].order = 1
Last == CHOOSE r \in Reqs : puts[r].order = 2

Supplies(r, f) == Has(puts[r].body, f)

(* C20, as claimed: for two PUT requests to the same slug, in any          *)
(* interleaving, a field supplied by only one of them ends with the value  *)
(* of that request and a field supplied by both ends with the value of the *)
(* request the store applied last.                                         *)
C20_Original ==
  BothApplied =>
    \E q \in store :
      /\ store = {q}
      /\ \A f \in CopiedFields \cup {"published_at"} :
           /\ Supplies(Last, f) => q[f] = puts[Last].body[f]
           /\ (~Supplies(Last, f) /\ Supplies(First, f)) => q[f] = puts[First].body[f]

\* request r sets published = true
Publishes(r) == Supplies(r, "published") /\ puts[r].body.published = TRUE

\* the published_at written by a request that sets published = true
PublishedAtOf(r) ==
  IF Supplies(r, "published_at") /\ puts[r].body.published_at # None
    THEN puts[r].body.published_at
    ELSE Some(puts[r].t)

(* C20, amended: when the store applies both requests (both answered 200), *)
(* each of title, slug, excerpt, content, cover_image_url, author and      *)
(* published ends with the value of the last applied request that supplied *)
(* it and keeps its value when neither did; published_at is not such a     *)
(* field: it ends as written by the last applied request that set          *)
(* published = true (its non-null published_at, else the time it read),    *)
(* and keeps its value when neither did.                                   *)
C20_FieldLevelLastWriterWins ==
  BothApplied =>
    \E p \in puts[First].rowsBefore : \E q \in store :
      /\ store = {q} /\ q.id = p.id
      /\ \A f \in CopiedFields :
           q[f] = IF Supplies(Last, f) THEN puts[Last].body[f]
                  ELSE IF Supplies(First, f) THEN puts[First].body[f]
                  ELSE p[f]
      /\ q.published_at =
           IF Publishes(Last) THEN PublishedAtOf(Last)
           ELSE IF Publishes(First) THEN PublishedAtOf(First)
           ELSE p.published_at

C20_Witness ==
  /\ BothApplied /\ Last = "b" /\ puts["b"].t < puts["a"].t
  /\ Supplies("a", "title") /\ Supplies("b", "title")
  /\ Supplies("a", "content") /\ ~Supplies("b", "content")
  /\ \E q \in store : q.title = "Tb" /\ q.content = "Ca"

----------------------------------------------------------------------------
(* C26: every published post has a publication timestamp: between          *)
(* requests every stored post with published = true has a non-null         *)
(* published_at; and the published_at of a post changes only in a PUT      *)
(* whose body sets published = true, so a published_at supplied without    *)
(* published is ignored.                                                   *)
C26_PublishedHasTimestamp ==
  /\ ~Done => \A p \in store : p.published => p.published_at # None
  /\ IsWrite =>
       \A p \in before : \A q \in After(store, p) :
         q.published_at # p.published_at =>
           /\ req.op = "PUT" /\ req.body.parses
           /\ Has(req.body.json, "published") /\ req.body.json.published = TRUE

C26_Witness ==
  /\ SuccessfulUpdate
  /\ ~Has(req.body.json, "published")
  /\ Has(req.body.json, "published_at") /\ req.body.json.published_at = Some(0)
  /\ \E p \in before : \E q \in store :
       /\ p.slug = req.slug /\ q.id = p.id
       /\ p.published /\ p.published_at = Some(1) /\ q.published_at = Some(1)

----------------------------------------------------------------------------
(* The lazy API handles: lazy(factory) and getClient                       *)

Handles == {"blogApi", "leadsApi", "seoApi"}

\* `let instance`, `let client` before any assignment
Unset == 0

\* the module is evaluated: the handles are constructed, nothing is created;
\* the configuration createAdminClient needs is there or is not
ImportModule ==
  /\ lazy = NoLazy
  /\ \E configured \in BOOLEAN :
       lazy' = [imported |-> TRUE, configured |-> configured,
                instance |-> [h \in Handles |-> Unset], client |-> Unset,
                factoryCalls |-> [h \in Handles |-> 0],
                reads |-> [h \in Handles |-> 0],
                created |-> 0, total |-> 0]
  /\ UNCHANGED <<blogVars, form, leadVars, puts, ui, nav>>

\* getClient() without the test of client
getClient_fresh(l) ==
  IF l.configured
    THEN [l EXCEPT !.client = l.created + 1, !.created = l.created + 1]
    ELSE l

\* getClient(): the state after the call; client stays unset when
\* createAdminClient throws for want of configuration
getClient(l) ==
  IF l.client # Unset THEN l
  ELSE IF l.configured
    THEN [l EXCEPT !.client = l.created + 1, !.created = l.created + 1]
    ELSE l

\* the get trap of the proxy of handle h
ProxyGet(l, h) ==
  LET read == [l EXCEPT !.reads[h] = @ + 1, !.total = @ + 1]
  IN IF read.instance[h] # Unset THEN read
     ELSE LET called == getClient([read EXCEPT !.factoryCalls[h] = @ + 1])
          IN [called EXCEPT !.instance[h] = called.client]

\* some property of some handle is read
Access ==
  /\ lazy # NoLazy /\ lazy.total < MaxAccesses
  /\ \E h \in Handles : lazy' = ProxyGet(lazy, h)
  /\ UNCHANGED <<blogVars, form, leadVars, puts, ui, nav>>

\* the configuration becomes available
Configure ==
  /\ lazy # NoLazy /\ ~lazy.configured
  /\ lazy' = [lazy EXCEPT !.configured = TRUE]
  /\ UNCHANGED <<blogVars, form, leadVars, puts, ui, nav>>

NextLazy == ImportModule \/ Access \/ Configure

SpecLazy == InitEditor /\ [][NextLazy]_vars

Imported == lazy # NoLazy

(* C25, as claimed: importing the handles invokes no factory; the factory  *)
(* of a handle runs on its first property access and at most once over any *)
(* sequence of accesses; the admin client is created at most once in all   *)
(* and shared by the handles.                                              *)
C25_Original ==
  Imported =>
    /\ \A h \in Handles :
         /\ lazy.reads[h] = 0 => lazy.factoryCalls[h] = 0
         /\ lazy.reads[h] > 0 => lazy.factoryCalls[h] = 1
    /\ lazy.created <= 1
    /\ \A h \in Handles : lazy.instance[h] \in {Unset, lazy.client}

(* C25, amended: importing the handles invokes no factory; the factory of  *)
(* a handle runs on its first property access, and on a later access only  *)
(* while no earlier run has returned (a run that throws because the client *)
(* cannot be created leaves the latch unset): once a run has returned, the *)
(* instance is kept and the factory never runs again; the admin client is  *)
(* created at most once in all and every instance is built on it.          *)
C25_LatchSetOnce ==
  /\ [](Imported =>
         /\ \A h \in Handles :
              /\ lazy.reads[h] = 0 => lazy.factoryCalls[h] = 0
              /\ lazy.reads[h] > 0 => lazy.factoryCalls[h] >= 1
              /\ lazy.factoryCalls[h] <= lazy.reads[h]
         /\ lazy.created <= 1
         /\ \A h \in Handles : lazy.instance[h] \in {Unset, lazy.client})
  /\ [][Imported =>
          /\ \A h \in Handles :
               lazy.instance[h] # Unset =>
                 /\ lazy'.instance[h] = lazy.instance[h]
                 /\ lazy'.factoryCalls[h] = lazy.factoryCalls[h]
          /\ lazy.client # Unset => lazy'.client = lazy.client]_vars

C25_Witness ==
  /\ Imported /\ lazy.total = MaxAccesses
  /\ lazy.reads["blogApi"] = 3 /\ lazy.factoryCalls["blogApi"] = 2
  /\ lazy.reads["leadsApi"] = 1 /\ lazy.factoryCalls["leadsApi"] = 1
  /\ lazy.created = 1
  /\ lazy.instance["blogApi"] = lazy.client /\ lazy.instance["leadsApi"] = lazy.client

----------------------------------------------------------------------------
(* NavigationProgress: the progress bar at the top of the viewport         *)

Paths == {"/a", "/b"}
Queries == {"", "?q=1"}

\* the internal links of the page: href of an anchor without download,
\* target or scheme
Hrefs == [path : Paths, query : Queries]

NoHref == [path |-> ""]

\* what Math.random() * 6 adds in one tick of the interval, in whole units
Crawls == {0, 5}

\* the component is mounted on some page; every effect has run
MountNav ==
  /\ nav = NoNav
  /\ \E url \in Hrefs :
       nav' = [mounted |-> TRUE, state |-> "idle", progress |-> 0, url |-> url,
               raf |-> FALSE, timeout |-> FALSE, going |-> NoHref]
  /\ UNCHANGED <<blogVars, form, leadVars, puts, ui, lazy>>

\* handleClick on an internal link: start() unless href === pathname;
\* the router then starts the navigation to href
Click ==
  /\ nav # NoNav
  /\ \E href \in Hrefs :
       nav' = IF href.query = "" /\ href.path = nav.url.path
                THEN [nav EXCEPT !.going = href]
                ELSE [nav EXCEPT !.state = "loading", !.progress = 30, !.going = href]
  /\ UNCHANGED <<blogVars, form, leadVars, puts, ui, lazy>>

\* one tick of the 400 ms interval while loading
Crawl ==
  /\ nav # NoNav /\ nav.state = "loading"
  /\ \E d \in Crawls :
       nav' = [nav EXCEPT !.progress = IF @ >= 80 THEN 80 ELSE @ + d]
  /\ nav' # nav
  /\ UNCHANGED <<blogVars, form, leadVars, puts, ui, lazy>>

\* the effect on [pathname, searchParams]: the cleanup of its last run
\* (cancelAnimationFrame, clearTimeout), then its body
RouteEffect(n) ==
  IF n.state = "loading"
    THEN [n EXCEPT !.raf = TRUE, !.timeout = TRUE]
    ELSE [n EXCEPT !.raf = FALSE, !.timeout = FALSE]

\* the navigation arrives: pathname or searchParams change and the effect
\* runs; a navigation to the URL the page is on changes neither
Navigate ==
  /\ nav # NoNav /\ nav.going # NoHref
  /\ nav' = IF nav.going = nav.url
              THEN [nav EXCEPT !.going = NoHref]
              ELSE RouteEffect([nav EXCEPT !.url = nav.going, !.going = NoHref])
  /\ UNCHANGED <<blogVars, form, leadVars, puts, ui, lazy>>

\* the requestAnimationFrame callback
AnimationFrame ==
  /\ nav # NoNav /\ nav.raf
  /\ nav' = [nav EXCEPT !.state = "completing", !.progress = 100, !.raf = FALSE]
  /\ UNCHANGED <<blogVars, form, leadVars, puts, ui, lazy>>

\* the 500 ms setTimeout callback
ResetTimer ==
  /\ nav # NoNav /\ nav.timeout
  /\ nav' = [nav EXCEPT !.state = "idle", !.progress = 0, !.timeout = FALSE]
  /\ UNCHANGED <<blogVars, form, leadVars, puts, ui, lazy>>

NextNav == MountNav \/ Click \/ Crawl \/ Navigate \/ AnimationFrame \/ ResetTimer

SpecNav == InitEditor /\ [][NextNav]_vars

(* C27: the progress bar always finishes: while it is loading or           *)
(* completing, something that carries it on is still to come, a navigation *)
(* under way, the animation-frame callback or the reset timer; it is never *)
(* left in loading or completing with none of them.                        *)
C27_NeverStranded ==
  (nav # NoNav /\ nav.state # "idle") =>
    (nav.going # NoHref \/ nav.raf \/ nav.timeout)

----------------------------------------------------------------------------
(* AdminPage: login, the list of posts, delete and the publish toggle      *)

\* the page is not mounted; sessionStorage holds admin_password = s
\* ("" when it holds none)
Closed(s) == [mounted |-> FALSE, session |-> s]

\* what is typed into the password field
Typed == {"", "pw", "bad"}

\* the first render, then the effect on storedPassword
Mounted(s) ==
  [mounted |-> TRUE, session |-> s, password |-> s, authenticated |-> s # "",
   posts |-> <<>>, loading |-> FALSE, error |-> "",
   fetchDue |-> s # "", fetching |-> FALSE, cred |-> "",
   dialog |-> "", answer |-> ""]

MountAdmin ==
  /\ ~ui.mounted /\ form = NoForm
  /\ ui' = Mounted(ui.session)
  /\ UNCHANGED <<blogVars, form, leadVars, puts, lazy, nav>>

\* the user navigates away from the page
LeaveAdmin ==
  /\ ui.mounted
  /\ ui' = Closed(ui.session)
  /\ UNCHANGED <<blogVars, form, leadVars, puts, lazy, nav>>

\* onChange of the password field
TypePassword ==
  /\ ui.mounted /\ ~ui.authenticated
  /\ \E v \in Typed : ui' = [ui EXCEPT !.password = v]
  /\ ui' # ui
  /\ UNCHANGED <<blogVars, form, leadVars, puts, lazy, nav>>

\* the form is submitted (the field is `required`)
handleLogin ==
  /\ ui.mounted /\ ~ui.authenticated /\ ui.password # ""
  /\ ui' = [ui EXCEPT !.session = ui.password, !.authenticated = TRUE,
                      !.fetchDue = TRUE]
  /\ UNCHANGED <<blogVars, form, leadVars, puts, lazy, nav>>

\* the effect on [authenticated, password]: fetchPosts(password) starts
FetchIssue ==
  /\ ui.mounted /\ ui.fetchDue
  /\ ui' = IF ui.authenticated /\ ui.password # ""
             THEN [ui EXCEPT !.fetchDue = FALSE, !.loading = TRUE,
                             !.fetching = TRUE, !.cred = ui.password]
             ELSE [ui EXCEPT !.fetchDue = FALSE]
  /\ UNCHANGED <<blogVars, form, leadVars, puts, lazy, nav>>

\* fetchPosts without its finally block when the response is not ok
FetchSettled_noFinally(u, r) ==
  IF r.status = 200
    THEN [u EXCEPT !.posts = r.list, !.loading = FALSE, !.fetching = FALSE]
    ELSE [u EXCEPT !.error = "Failed to load posts.", !.fetching = FALSE]

\* fetchPosts after the await: setPosts or setError, then setLoading(false)
FetchSettled(u, r) ==
  IF r.status = 200
    THEN [u EXCEPT !.posts = r.list, !.loading = FALSE, !.fetching = FALSE]
    ELSE [u EXCEPT !.error = "Failed to load posts.", !.loading = FALSE,
                   !.fetching = FALSE]

\* GET /api/blog is answered and fetchPosts resumes
FetchSettle ==
  /\ ui.mounted /\ ui.fetching /\ req = NoReq
  /\ \E fail \in BOOLEAN :
       \E r \in ListResponses(store, ui.cred, secret, fail) :
         /\ req' = [op |-> "LIST", auth |-> ui.cred, fail |-> fail]
         /\ resp' = r
         /\ ui' = FetchSettled(ui, r)
  /\ before' = store
  /\ UNCHANGED <<secret, store, now, form, leadVars, puts, lazy, nav>>

\* the slugs of the posts on display (shown when not loading)
Displayed == IF ui.loading THEN {} ELSE {ui.posts[i].slug : i \in DOMAIN ui.posts}

\* handleDelete up to confirm(): the dialog opens
ClickDelete ==
  /\ ui.mounted /\ ui.authenticated /\ ui.dialog = ""
  /\ \E slug \in Displayed : ui' = [ui EXCEPT !.dialog = slug, !.answer = ""]
  /\ UNCHANGED <<blogVars, form, leadVars, puts, lazy, nav>>

\* the request is sent whatever confirm() returns
Proceeds_always(answer) == TRUE

\* if (!confirm(...)) return;
Proceeds(answer) == answer

\* the posts kept whatever the response
AfterDelete_optimistic(posts, slug, r) ==
  SelectSeq(posts, LAMBDA p : p.slug # slug)

\* if (res.ok) setPosts(prev => prev.filter(p => p.slug !== slug))
AfterDelete(posts, slug, r) ==
  IF r.status = 200 THEN SelectSeq(posts, LAMBDA p : p.slug # slug) ELSE posts

\* what confirm() returned, as the page remembers it
Answer(answer) == IF answer THEN "ok" ELSE "cancel"

\* confirm() returns; on true the DELETE is sent and answered
AnswerConfirm ==
  /\ ui.mounted /\ ui.dialog # ""
  /\ \E answer \in BOOLEAN :
       IF Proceeds(answer)
         THEN /\ req = NoReq
              /\ \E fail \in BOOLEAN :
                   LET r == DeleteResult(store, ui.dialog, ui.password, secret, fail)
                   IN /\ fail => isAuthorized(ui.password, secret)
                      /\ req' = [op |-> "DELETE", auth |-> ui.password,
                                 slug |-> ui.dialog, fail |-> fail]
                      /\ resp' = r.resp
                      /\ store' = r.rows
                      /\ before' = store
                      /\ ui' = [ui EXCEPT !.dialog = "", !.answer = Answer(answer),
                                  !.posts = AfterDelete(@, ui.dialog, r.resp)]
         ELSE /\ ui' = [ui EXCEPT !.dialog = "", !.answer = Answer(answer)]
              /\ UNCHANGED <<store, req, resp, before>>
  /\ UNCHANGED <<secret, now, form, leadVars, puts, lazy, nav>>

\* if (res.ok) setPosts(prev => prev.map(p => p.slug === slug ? updated : p))
AfterToggle(posts, slug, r) ==
  IF r.status = 200
    THEN [i \in DOMAIN posts |->
            IF posts[i].slug = slug THEN CHOOSE u \in r.data : TRUE ELSE posts[i]]
    ELSE posts

\* handleTogglePublish(post): PUT { published: !post.published }
handleTogglePublish ==
  /\ ui.mounted /\ ui.authenticated /\ ui.dialog = "" /\ ~ui.loading
  /\ req = NoReq
  /\ \E i \in DOMAIN ui.posts, fail \in BOOLEAN :
       LET post == ui.posts[i]
           body == Parsed([published |-> ~post.published])
           r == PutResult(store, now, post.slug, ui.password, secret, body, fail)
       IN /\ fail => isAuthorized(ui.password, secret)
          /\ req' = [op |-> "PUT", auth |-> ui.password, slug |-> post.slug,
                     body |-> body, fail |-> fail]
          /\ resp' = r.resp
          /\ store' = r.rows
          /\ before' = store
          /\ ui' = [ui EXCEPT !.posts = AfterToggle(@, post.slug, r.resp)]
  /\ UNCHANGED <<secret, now, form, leadVars, puts, lazy, nav>>

\* blog_posts holds a draft "s1" and a published post "s2"; the page is not
\* open and sessionStorage is empty
InitAdmin ==
  /\ secret = "pw"
  /\ store = {NewRow(InsertValues([title |-> "T", slug |-> "s1"], 0), 1, 0),
              NewRow(InsertValues([title |-> "T", slug |-> "s2", published |-> TRUE], 0), 2, 0)}
  /\ now = 0
  /\ req = NoReq
  /\ resp = NoResp
  /\ before = {}
  /\ form = NoForm
  /\ InitLeads
  /\ puts = <<>>
  /\ ui = Closed("")
  /\ lazy = NoLazy
  /\ nav = NoNav

NextAdmin ==
  \/ MountAdmin \/ LeaveAdmin \/ TypePassword \/ handleLogin
  \/ FetchIssue \/ FetchSettle \/ ClickDelete \/ AnswerConfirm
  \/ handleTogglePublish \/ Respond

\* effects run and responses arrive; the user is free to do nothing
SpecAdmin ==
  /\ InitAdmin /\ [][NextAdmin]_vars
  /\ WF_vars(FetchIssue) /\ WF_vars(FetchSettle) /\ WF_vars(Respond)


\* the page shows the authenticated view
Authenticated == ui.mounted /\ ui.authenticated

\* the spinner is on display
Loading == ui.mounted /\ ui.loading

\* a list fetch carrying the page's credential is in flight
ListFetchIssued == ui.mounted /\ ui.fetching /\ ui.cred = ui.password

\* C21: the page becomes authenticated only in a step that leaves the
\* credential it holds equal to a non-empty admin_password in session storage
\* (a password just submitted, or one already stored when the page mounted);
\* whenever it is authenticated with a non-empty credential a list fetch
\* carrying that credential is due, in flight or done, and a due one is
\* issued; and every list fetch ends with the loading flag false, after a 200
\* and after a failure alike.
C21_LoginThenLoad ==
  /\ [][(Authenticated' /\ ~Authenticated) =>
          /\ ui'.session # "" /\ ui'.password = ui'.session
          /\ ui'.fetchDue
          /\ (ui.mounted => ui.password = ui'.password)]_vars
  /\ [](Authenticated /\ ui.password # "" =>
          ui.fetchDue \/ ui.cred = ui.password)
  /\ ((Authenticated /\ ui.fetchDue) ~> (ListFetchIssued \/ ~ui.mounted))
  /\ [][(ui.mounted /\ ui.fetching /\ ui'.mounted /\ ~ui'.fetching) =>
          /\ req'.op = "LIST" /\ req'.auth = ui.cred
          /\ ~ui'.loading
          /\ (resp'.status = 200 => ui'.posts = resp'.list)
          /\ (resp'.status # 200 => ui'.posts = ui.posts)]_vars
  /\ (Loading ~> ~Loading)
  /\ [](Loading => ui.fetching)

\* a list fetch that failed has completed and the spinner is gone
C21_Witness ==
  /\ Authenticated /\ ~ui.loading /\ ~ui.fetching
  /\ Done /\ req.op = "LIST" /\ req.auth = ui.password /\ resp.status = 500
  /\ ui.posts = <<>>


\* this step sends a DELETE request
SendsDelete == req' # req /\ req' # NoReq /\ req'.op = "DELETE"

\* this step closes the confirmation dialog with the answer "cancel"
Declines == ui.mounted /\ ui.dialog # "" /\ ui'.mounted /\ ui'.dialog = "" /\ ui'.answer = "cancel"

\* C22: a step of the admin page sends a DELETE only while the confirmation
\* dialog for that very post is open and is answered with "OK"; a step that
\* answers the dialog with "cancel" sends no request and changes neither the
\* displayed posts nor the store.
C22_DeleteOnlyConfirmed ==
  /\ [][SendsDelete =>
          /\ ui.mounted /\ ui.dialog # "" /\ req'.slug = ui.dialog
          /\ ui'.answer = "ok" /\ ui'.dialog = ""
          /\ req'.auth = ui.password]_vars
  /\ [][Declines =>
          /\ req' = req /\ resp' = resp
          /\ store' = store
          /\ ui'.posts = ui.posts]_vars

\* after a confirmed delete removed one post, a second delete was declined:
\* nothing was sent and the remaining post is still stored and on display
C22_Witness ==
  /\ Authenticated /\ ui.dialog = "" /\ ui.answer = "cancel"
  /\ Len(ui.posts) = 1 /\ Cardinality(store) = 1 /\ req = NoReq
  /\ \E p \in store : p.slug = ui.posts[1].slug


----------------------------------------------------------------------------
(* The admin page and the editor together: one browser tab that moves      *)
(* between the two routes                                                   *)

NextAdminEditor ==
  \/ MountAdmin \/ LeaveAdmin \/ TypePassword \/ handleLogin
  \/ FetchIssue \/ FetchSettle \/ ClickDelete \/ AnswerConfirm
  \/ handleTogglePublish \/ Respond
  \/ OpenNew \/ OpenEdit \/ TypeTitle \/ handleSave

SpecAdminEditor == InitAdmin /\ [][NextAdminEditor]_vars

\* this step sends a request of the admin UI and the answer is not OK
FailedCall == req' # req /\ req' # NoReq /\ resp'.status \notin {200, 201}

\* C23: a step in which a call of the admin UI fails (list fetch, delete,
\* publish toggle or save; 401, 404, 400 or 500) leaves the displayed posts,
\* the credential and the authenticated flag as they were and schedules no
\* further call; a failed save keeps the editor open with every field of the
\* form as it was, only the error message set; and every request the UI sends
\* carries the one credential in session storage, which no failure changes.
C23_FailureLeavesStateIntact ==
  /\ [][FailedCall =>
          /\ ui'.mounted = ui.mounted /\ ui'.session = ui.session
          /\ ui.mounted =>
               /\ ui'.posts = ui.posts
               /\ ui'.password = ui.password
               /\ ui'.authenticated = ui.authenticated
               /\ ~ui'.fetchDue /\ ~ui'.fetching
          /\ req'.op \in {"POST", "PUT"} /\ form # NoForm =>
               /\ form' # NoForm
               /\ form' = [form EXCEPT !.error = form'.error]]_vars
  /\ [](Done => req.auth = ui.session)

\* a save from the editor was refused as unauthorized: the editor is still
\* open with the typed title and shows an error
C23_Witness ==
  /\ form # NoForm /\ form.isEdit /\ form.title = "My Post!" /\ form.error # ""
  /\ Done /\ req.op = "PUT" /\ req.auth = "bad" /\ resp.status = 401
  /\ ~ui.mounted


\* an error message is on display: the admin page renders `error` in its
\* login view only, the editor above its form
ErrorShown ==
  \/ ui.mounted /\ ~ui.authenticated /\ ui.error # ""
  \/ form # NoForm /\ form.error # ""

\* C24: after every step in which a call of the admin UI fails (list fetch,
\* delete, publish toggle or save) an error message is on display in the view
\* the user is in.
C24_FailureSurfaced == [][FailedCall => ErrorShown']_vars

====
